---- MODULE Spec2Model ----
(***************************************************************************)
(* Session controller of the Mock Interview Bot (interview-bot/src/App.jsx).*)
(* App.jsx holds two variants of the component MockInterviewBot: the video  *)
(* variant (lines 1-665) and the chat variant (lines 666-1206).  Both are   *)
(* modelled; the variable `variant` says which one is running.              *)
(*                                                                          *)
(* A text is a sequence of string pieces; template literals and string      *)
(* concatenation are sequence concatenation.  A handler runs atomically up  *)
(* to its `await`, and its continuation runs atomically when the request    *)
(* resolves; the values a continuation reads from its closure are stored in *)
(* the request record.                                                      *)
(***************************************************************************)
EXTENDS Integers, Sequences, FiniteSets, TLC

(* ------------------------------ bounds --------------------------------- *)
MaxStarts == 2
MaxSubmits == 1
MaxEnds == 2
MaxInterviewRequests == 2   \* submit and end requests together
MaxInputLen == 1
MaxTimer == 1
MaxEdits == 1
MaxHistory == 3             \* turns of a history handed to callGemini directly

(* ------------------------------ inputs --------------------------------- *)
Variants == {"video", "chat"}
Screens == {"setup", "interview", "feedback"}

DefaultRole == "Senior Software Engineer"
DefaultSkills == "React, Node.js, System Design"
DefaultExperience == "Senior (5+ years)"
DefaultRubric == "Focus on architectural patterns, scalability, and edge cases. Be strict but polite."

Roles == {DefaultRole, "Data Engineer"}
SkillSets == {DefaultSkills, "SQL"}
Experiences == {DefaultExperience, "Mid-Level"}
Rubrics == {DefaultRubric, "Be lenient."}

Chars == {" ", "a"}

(* import.meta.env.VITE_GEMINI_API_KEY || "" (lines 9, 672), for a build   *)
(* that was given the variable (Dockerfile build argument)                 *)
DEFAULT_API_KEY == <<"key-of-the-build">>
ApiKeys == {<<>>, DEFAULT_API_KEY, <<"key-of-the-user">>}

RECURSIVE SeqsUpTo(_, _)
SeqsUpTo(S, n) ==
  IF n = 0 THEN {<<>>}
  ELSE LET shorter == SeqsUpTo(S, n - 1)
       IN  shorter \cup {Append(s, c) : s \in shorter, c \in S}

InputsOfLen(n) == SeqsUpTo(Chars, n)

(* ------------------------- pure helper functions ----------------------- *)
Null == [t |-> "null"]

Last(s) == s[Len(s)]

RECURSIVE TrimStart(_)
TrimStart(s) ==
  IF s # <<>> /\ Head(s) = " " THEN TrimStart(Tail(s)) ELSE s

RECURSIVE TrimEnd(_)
TrimEnd(s) ==
  IF s # <<>> /\ Last(s) = " " THEN TrimEnd(SubSeq(s, 1, Len(s) - 1)) ELSE s

(* the text tested as it is, white space included *)
Trim_KeepsWhiteSpace(s) == s

(* String.prototype.trim() *)
Trim(s) == TrimEnd(TrimStart(s))

StartsWith(s, piece) == s # <<>> /\ Head(s) = piece

(* the filter with another name for the sentinel role *)
NotHidden_WrongSentinel(m) == m.role # "system"

(* m => m.role !== 'system_hidden' (lines 253, 276, 330, 814, 827, 873, 1013) *)
NotHidden(m) == m.role # "system_hidden"

(* the history passed on without the filter *)
VisibleHistory_Unfiltered(history) == history

VisibleHistory(history) == SelectSeq(history, NotHidden)

FindSystemPrompt(history) ==
  IF \E i \in 1..Len(history) : history[i].role = "system_hidden"
  THEN history[CHOOSE i \in 1..Len(history) :
                 /\ history[i].role = "system_hidden"
                 /\ \A j \in 1..(i - 1) : history[j].role # "system_hidden"].text
  ELSE <<>>

SystemPrompt(v, r, e, s, rb) ==
  IF v = "video"
  THEN <<"You are an expert interviewer for a", r,
         "position. The candidate has the following experience:", e,
         "Key skills to assess:", s, "Rubric:", rb,
         "Your Goal: Conduct a mock interview. Keep your questions CONCISE.">>
  ELSE <<"You are an expert interviewer for a", r,
         "position. The candidate has the following experience:", e,
         "Key skills to assess:", s, "Evaluation Rubric/Focus:", rb,
         "Your Goal: Conduct a mock interview. Start by welcoming the candidate.">>

StartPrompt(v) ==
  IF v = "video" THEN <<"Start the interview. Ask the first question.">>
  ELSE <<"Start the interview.">>

FeedbackPrompt(v, s) ==
  IF v = "video"
  THEN <<"The interview is concluded. Provide detailed feedback in JSON format.">>
  ELSE <<"The interview is concluded. Format the response as JSON; technical_analysis regarding", s,
         "Do not output markdown code blocks, just the raw JSON string.">>

(* the mapping that passes the stored role on unchanged *)
FormatTurn_KeepsRole(msg) == [role |-> msg.role, text |-> msg.text]

FormatTurn(msg) ==
  [role |-> IF msg.role = "bot" THEN "model" ELSE "user", text |-> msg.text]

FormattedHistory(history) == [i \in 1..Len(history) |-> FormatTurn(history[i])]

Contents(prompt, history) ==
  IF prompt # <<>>
  THEN Append(FormattedHistory(history), [role |-> "user", text |-> prompt])
  ELSE FormattedHistory(history)

(* ------------------------- the generation endpoint --------------------- *)
(* What the endpoint does with one request: the environment's choice.      *)
HttpFailure == [class |-> "http", body |-> <<"API Error:", "500", "-", "Internal error">>]
NetworkFailure == [class |-> "network", body |-> <<"Failed to fetch">>]
NoContent == [class |-> "nocontent", body |-> <<"No candidates returned from API">>]
Failures == {HttpFailure, NetworkFailure, NoContent}

(* The code-fence markers: three backticks followed by json, and three    *)
(* backticks.                                                              *)
FenceJson == "[three backticks]json"
Fence == "[three backticks]"

Generated(t) == [class |-> "ok", body |-> t]

QuestionOutcomes == {Generated(<<"Hello">>)} \cup Failures

FeedbackOutcomes ==
  {Generated(<<"{full}">>),
   Generated(<<FenceJson, "{noImprovements}", Fence>>),
   Generated(<<"Not JSON">>)} \cup Failures

(* callGemini's return value.  video: lines 186-200, 'Error: ' + message.  *)
(* chat: lines 754-763, one fixed string for every failure.                *)
CallGemini(v, outcome) ==
  IF outcome.class = "ok" THEN outcome.body
  ELSE IF v = "video" THEN <<"Error:">> \o outcome.body
  ELSE <<"Error connecting to the AI. Please check your API key or connection.">>

(* ------------------------------ JSON ----------------------------------- *)
JStr(s) == [t |-> "str", v |-> s]
JArr(a) == [t |-> "arr", v |-> a]
JObj(o) == [t |-> "obj", v |-> o]

FullDoc ==
  JObj([summary |-> JStr(<<"Good">>), strengths |-> JArr(<<JStr(<<"clear">>)>>),
        improvements |-> JArr(<<JStr(<<"depth">>)>>), rating |-> JStr(<<"8/10">>),
        technical_analysis |-> JStr(<<"solid">>),
        communication_analysis |-> JStr(<<"fine">>)])

NoImprovementsDoc ==
  JObj([summary |-> JStr(<<"Good">>), strengths |-> JArr(<<JStr(<<"clear">>)>>),
        rating |-> JStr(<<"8/10">>),
        technical_analysis |-> JStr(<<"solid">>),
        communication_analysis |-> JStr(<<"fine">>)])

IsFence(piece) == piece \in {FenceJson, Fence}
NotFence(piece) == ~IsFence(piece)

(* rawFeedback with both fence markers replaced by '', then trim()        *)
CleanJson(raw) == Trim(SelectSeq(raw, NotFence))

(* JSON.parse: the documents the endpoint is taken to produce; any other   *)
(* text is a SyntaxError.                                                  *)
JsonParses(clean) == Len(clean) = 1 /\ clean[1] \in {"{full}", "{noImprovements}"}
JsonParse(clean) == IF clean[1] = "{full}" THEN FullDoc ELSE NoImprovementsDoc

HasField(doc, name) == doc.t = "obj" /\ name \in DOMAIN doc.v

(* parsed.f || dflt *)
OrDefault(doc, name, dflt) ==
  IF HasField(doc, name) /\ doc.v[name] # JStr(<<>>) THEN doc.v[name] ELSE JStr(dflt)

(* Array.isArray(parsed.f) ? parsed.f : [] *)
ArrayOrEmpty(doc, name) ==
  IF HasField(doc, name) /\ doc.v[name].t = "arr" THEN doc.v[name] ELSE JArr(<<>>)

(* video lines 302-309: the report built from the parsed document *)
BuildReport(parsed) ==
  JObj([summary |-> OrDefault(parsed, "summary", <<"No summary available.">>),
        strengths |-> ArrayOrEmpty(parsed, "strengths"),
        improvements |-> ArrayOrEmpty(parsed, "improvements"),
        rating |-> OrDefault(parsed, "rating", <<"N/A">>),
        technical_analysis |-> OrDefault(parsed, "technical_analysis", <<"No analysis available.">>),
        communication_analysis |-> OrDefault(parsed, "communication_analysis", <<"No analysis available.">>)])

(* video lines 313-320.  rawFeedback is a const of the try block, so in    *)
(* the catch block the name is unresolvable: typeof gives 'undefined' and  *)
(* the conditional yields "Error".                                         *)
DegradedReport ==
  JObj([summary |-> JStr(<<"Could not generate structured JSON.">>),
        strengths |-> JArr(<<>>),
        improvements |-> JArr(<<>>),
        rating |-> JStr(<<"?/10">>),
        technical_analysis |-> JStr(<<"Raw output:", "Error">>),
        communication_analysis |-> JStr(<<>>)])

(* ------------------------------- state --------------------------------- *)
VARIABLES
  variant,               \* which of the two components of App.jsx runs
  screen, role, skills, experience, rubric, loading,
  chatHistory, currentInput, interimInput, questionCount,
  isMicEnabled, timer, isTimerRunning,
  feedbackReport, isGeneratingFeedback,
  apiKey, hasCustomKey,
  recognizing,           \* recognitionRef.current is started
  isVideoEnabled,
  streamRef,             \* streamRef.current: null or the camera stream held
  videoPending,          \* the getUserMedia calls that have not settled
  pending,               \* the generation requests that have not resolved
  issued,                \* number of requests issued so far, by kind
  session,               \* number of startInterview calls so far
  roundTrips,            \* submit round trips of the current session completed
  reports,               \* reports set since the last startInterview call
  aborted,               \* the interview was left by Exit Session since then
  edits,                 \* number of edits of the setup form so far
  last                   \* the event that produced this state

vars ==
  <<variant, screen, role, skills, experience, rubric, loading,
    chatHistory, currentInput, interimInput, questionCount,
    isMicEnabled, timer, isTimerRunning,
    feedbackReport, isGeneratingFeedback, apiKey, hasCustomKey,
    recognizing, isVideoEnabled, streamRef, videoPending,
    pending, issued, session, roundTrips, reports, aborted, edits, last>>

configVars == <<role, skills, experience, rubric>>
keyVars == <<apiKey, hasCustomKey>>
streamVars == <<isVideoEnabled, streamRef, videoPending>>
inputVars == <<currentInput, interimInput>>
timerVars == <<timer, isTimerRunning>>
requestVars == <<pending, issued>>
ghostVars == <<session, roundTrips, reports, aborted>>

(* const keyToUse = apiKey || "" (lines 155, 719) *)
KeyToUse == IF apiKey # <<>> THEN apiKey ELSE <<>>

Event(op) == [op |-> op, class |-> "-", text |-> <<>>, qc |-> 0, sys |-> <<>>]

Completion(op, r, outcome, text) ==
  [op |-> op, class |-> outcome.class, text |-> text, qc |-> questionCount,
   sys |-> r.systemInstruction]

Turn(r, t) == [role |-> r, text |-> t]

Init ==
  /\ variant \in Variants
  /\ screen = "setup"
  /\ role = DefaultRole
  /\ skills = DefaultSkills
  /\ experience = DefaultExperience
  /\ rubric = DefaultRubric
  /\ loading = FALSE
  /\ chatHistory = <<>>
  /\ currentInput = <<>>
  /\ interimInput = <<>>
  /\ questionCount = 0
  /\ isMicEnabled = TRUE
  /\ timer = 0
  /\ isTimerRunning = FALSE
  /\ feedbackReport = Null
  /\ isGeneratingFeedback = FALSE
  /\ apiKey = DEFAULT_API_KEY
  /\ hasCustomKey = FALSE
  /\ recognizing = FALSE
  /\ isVideoEnabled = TRUE
  /\ streamRef = Null
  /\ videoPending = {}
  /\ pending = {}
  /\ issued = [start |-> 0, submit |-> 0, end |-> 0]
  /\ session = 0
  /\ roundTrips = 0
  /\ reports = 0
  /\ aborted = FALSE
  /\ edits = 0
  /\ last = Event("init")

(* The effect of lines 100-112 runs after a render in which screen,        *)
(* isMicEnabled or loading changed; otherwise recognition is left as the   *)
(* handler's own start()/stop() calls put it.  The chat variant has no     *)
(* recognition.                                                            *)
RecognitionAfter(direct) ==
  IF variant = "chat" THEN FALSE
  ELSE IF <<screen', isMicEnabled', loading'>> # <<screen, isMicEnabled, loading>>
       THEN screen' = "interview" /\ isMicEnabled' /\ ~loading'
       ELSE direct

(* a stream as getUserMedia hands it over: its tracks are enabled *)
Stream(call) == [t |-> "stream", call |-> call, enabled |-> TRUE]

(* The effect of lines 115-122 runs after a render in which screen         *)
(* changed: the cleanup of the previous run calls stopVideo, then          *)
(* startVideo is called on the interview screen and stopVideo on the       *)
(* others.  stopVideo stops the tracks of the stream held and clears       *)
(* streamRef (lines 146-151); startVideo calls getUserMedia and returns at *)
(* its await (line 135).  The chat variant has no camera.                  *)
VideoAfter(call) ==
  IF variant = "chat" \/ screen' = screen THEN UNCHANGED streamVars
  ELSE /\ streamRef' = Null
       /\ videoPending' = IF screen' = "interview" THEN videoPending \cup {call}
                          ELSE videoPending
       /\ UNCHANGED isVideoEnabled

MaxIssued == [start |-> MaxStarts, submit |-> MaxSubmits, end |-> MaxEnds]
MaxRequests == MaxStarts + MaxInterviewRequests
NumIssued == issued.start + issued.submit + issued.end

(* callGemini sending its request a second time *)
Issue_Twice(kind, prompt, history, sys, sess) ==
  /\ issued[kind] < MaxIssued[kind]
  /\ kind # "start" => issued.submit + issued.end < MaxInterviewRequests
  /\ issued' = [issued EXCEPT ![kind] = @ + 1]
  /\ pending' = pending \cup
       {[id |-> NumIssued + n, kind |-> kind, contents |-> Contents(prompt, history),
         key |-> KeyToUse, systemInstruction |-> sys, session |-> sess, mic |-> isMicEnabled] :
        n \in {1, MaxRequests + 1}}

(* one call of callGemini: one fetch (lines 173-184, 740-751) *)
Issue(kind, prompt, history, sys, sess) ==
  /\ issued[kind] < MaxIssued[kind]
  /\ kind # "start" => issued.submit + issued.end < MaxInterviewRequests
  /\ issued' = [issued EXCEPT ![kind] = @ + 1]
  /\ pending' = pending \cup
       {[id |-> NumIssued + 1, kind |-> kind, contents |-> Contents(prompt, history),
         key |-> KeyToUse, systemInstruction |-> sys, session |-> sess, mic |-> isMicEnabled]}

(* ------------------------- what the UI enables -------------------------- *)
(* Start button: disabled={loading} (lines 429, 981) *)
StartDisabled == loading

(* the Submit button without its loading test *)
SubmitButtonDisabled_IgnoresLoading ==
  IF variant = "video"
  THEN currentInput = <<>> /\ interimInput = <<>>
  ELSE Trim(currentInput) = <<>>

(* Submit button: lines 548 (video) and 1064 (chat) *)
SubmitButtonDisabled ==
  IF variant = "video"
  THEN loading \/ (currentInput = <<>> /\ interimInput = <<>>)
  ELSE loading \/ Trim(currentInput) = <<>>

(* Answer textarea of the chat variant, whose Enter key calls             *)
(* handleSendMessage: disabled={loading} (line 1060)                       *)
TextareaDisabled == variant # "chat" \/ loading

(* End buttons (lines 535-542, 1003-1008) carry no disabled attribute *)
EndDisabled == FALSE

(* Exit Session (chat, lines 1184-1193): rendered when screen !== 'setup' *)
ExitRendered == variant = "chat" /\ screen # "setup"

(* New Interview (lines 579-585, 1095-1101) is part of the feedback screen,*)
(* which renders nothing while feedbackReport is null (lines 561, 1078)    *)
NewInterviewRendered == screen = "feedback" /\ feedbackReport # Null

(* the feedback screen (lines 561-660, 1078-1180) calls .map on            *)
(* feedbackReport.strengths and feedbackReport.improvements (lines 607,    *)
(* 621, 1125, 1139): a TypeError when either is not an array               *)
RenderFeedbackThrows(report) ==
  /\ report # Null
  /\ \/ ~HasField(report, "strengths") \/ ~HasField(report, "improvements")
     \/ report.v.strengths.t # "arr" \/ report.v.improvements.t # "arr"

(* An error thrown while rendering unmounts the whole component: nothing   *)
(* is rendered any more, no handler can be invoked and the setters called  *)
(* by a continuation still to run have no effect.                          *)
Mounted == ~(screen = "feedback" /\ RenderFeedbackThrows(feedbackReport))

(* the increment guarded on the success of the call *)
NextQuestionCount_SuccessOnly(prev, outcome) ==
  IF outcome.class = "ok" THEN prev + 1 ELSE prev

(* setQuestionCount(prev => prev + 1), lines 259 and 820 *)
NextQuestionCount(prev, outcome) == prev + 1

(* ------------------------------ setup form ------------------------------ *)
SetRole(v) ==
  /\ Mounted
  /\ screen = "setup" /\ edits < MaxEdits /\ v # role
  /\ role' = v /\ edits' = edits + 1 /\ last' = Event("setRole")
  /\ UNCHANGED <<variant, keyVars, streamVars, screen, skills, experience, rubric, loading, chatHistory,
                 inputVars, questionCount, isMicEnabled, timerVars, feedbackReport,
                 isGeneratingFeedback, recognizing, requestVars, ghostVars>>

SetSkills(v) ==
  /\ Mounted
  /\ screen = "setup" /\ edits < MaxEdits /\ v # skills
  /\ skills' = v /\ edits' = edits + 1 /\ last' = Event("setSkills")
  /\ UNCHANGED <<variant, keyVars, streamVars, screen, role, experience, rubric, loading, chatHistory,
                 inputVars, questionCount, isMicEnabled, timerVars, feedbackReport,
                 isGeneratingFeedback, recognizing, requestVars, ghostVars>>

SetExperience(v) ==
  /\ Mounted
  /\ screen = "setup" /\ edits < MaxEdits /\ v # experience
  /\ experience' = v /\ edits' = edits + 1 /\ last' = Event("setExperience")
  /\ UNCHANGED <<variant, keyVars, streamVars, screen, role, skills, rubric, loading, chatHistory,
                 inputVars, questionCount, isMicEnabled, timerVars, feedbackReport,
                 isGeneratingFeedback, recognizing, requestVars, ghostVars>>

(* only the chat variant's setup screen has the rubric textarea (line 949) *)
SetRubric(v) ==
  /\ Mounted
  /\ variant = "chat"
  /\ screen = "setup" /\ edits < MaxEdits /\ v # rubric
  /\ rubric' = v /\ edits' = edits + 1 /\ last' = Event("setRubric")
  /\ UNCHANGED <<variant, keyVars, streamVars, screen, role, skills, experience, loading, chatHistory,
                 inputVars, questionCount, isMicEnabled, timerVars, feedbackReport,
                 isGeneratingFeedback, recognizing, requestVars, ghostVars>>

(* ------------------------------ start ----------------------------------- *)
StartInterview ==
  /\ Mounted
  /\ screen = "setup" /\ ~StartDisabled
  /\ loading' = TRUE
  /\ chatHistory' = <<>>
  /\ questionCount' = 0
  /\ feedbackReport' = Null
  /\ IF variant = "video"
     THEN timer' = 0 /\ isTimerRunning' = FALSE
     ELSE UNCHANGED timerVars
  /\ session' = session + 1
  /\ roundTrips' = 0
  /\ reports' = 0
  /\ aborted' = FALSE
  /\ Issue("start", StartPrompt(variant), <<>>,
           SystemPrompt(variant, role, experience, skills, rubric), session + 1)
  /\ UNCHANGED <<variant, keyVars, streamVars, screen, configVars, inputVars, isMicEnabled,
                 isGeneratingFeedback, edits>>
  /\ recognizing' = RecognitionAfter(recognizing)
  /\ last' = Event("start")

StartDone(r, outcome) ==
  /\ Mounted
  /\ r \in pending /\ r.kind = "start"
  /\ LET initialGreeting == CallGemini(variant, outcome) IN
     /\ chatHistory' = <<Turn("system_hidden", r.systemInstruction),
                         Turn("bot", initialGreeting)>>
     /\ last' = Completion("startDone", r, outcome, initialGreeting)
  /\ screen' = "interview"
  /\ loading' = FALSE
  /\ IF variant = "video"
     THEN isTimerRunning' = TRUE /\ UNCHANGED timer
     ELSE UNCHANGED timerVars
  /\ pending' = pending \ {r}
  /\ UNCHANGED <<variant, keyVars, configVars, inputVars, questionCount, isMicEnabled,
                 feedbackReport, isGeneratingFeedback, issued, ghostVars, edits>>
  /\ recognizing' = RecognitionAfter(recognizing)
  /\ VideoAfter(r.session)

(* ------------------------------ answer input ---------------------------- *)
(* chat: textarea onChange (line 1050) *)
TypeInput(v) ==
  /\ Mounted
  /\ screen = "interview" /\ ~TextareaDisabled
  /\ v # currentInput
  /\ currentInput' = v
  /\ last' = Event("type")
  /\ UNCHANGED <<variant, keyVars, streamVars, screen, configVars, loading, chatHistory, interimInput,
                 questionCount, isMicEnabled, timerVars, feedbackReport,
                 isGeneratingFeedback, recognizing, requestVars, ghostVars, edits>>

(* video: recognition.onresult with a final transcript (lines 79-84) *)
SpeechFinal(final) ==
  /\ Mounted
  /\ variant = "video" /\ recognizing
  /\ final # <<>>
  /\ LET prefix == IF currentInput # <<>> /\ Last(currentInput) # " "
                   THEN <<" ">> ELSE <<>>
         next == currentInput \o prefix \o final
     IN  /\ Len(next) <= MaxInputLen
         /\ currentInput' = next
  /\ interimInput' = <<>>
  /\ last' = Event("speechFinal")
  /\ UNCHANGED <<variant, keyVars, streamVars, screen, configVars, loading, chatHistory,
                 questionCount, isMicEnabled, timerVars, feedbackReport,
                 isGeneratingFeedback, recognizing, requestVars, ghostVars, edits>>

(* video: recognition.onresult without a final transcript (lines 85-87) *)
SpeechInterim(interim) ==
  /\ Mounted
  /\ variant = "video" /\ recognizing
  /\ interim # interimInput
  /\ interimInput' = interim
  /\ last' = Event("speechInterim")
  /\ UNCHANGED <<variant, keyVars, streamVars, screen, configVars, loading, chatHistory, currentInput,
                 questionCount, isMicEnabled, timerVars, feedbackReport,
                 isGeneratingFeedback, recognizing, requestVars, ghostVars, edits>>

(* video: microphone button (line 522) *)
ToggleMic ==
  /\ Mounted
  /\ variant = "video" /\ screen = "interview"
  /\ isMicEnabled' = ~isMicEnabled
  /\ last' = Event("toggleMic")
  /\ UNCHANGED <<variant, keyVars, streamVars, screen, configVars, loading, chatHistory, inputVars,
                 questionCount, timerVars, feedbackReport,
                 isGeneratingFeedback, requestVars, ghostVars, edits>>
  /\ recognizing' = RecognitionAfter(recognizing)

(* video: the interval of lines 48-56 *)
Tick ==
  /\ Mounted
  /\ variant = "video" /\ isTimerRunning /\ timer < MaxTimer
  /\ timer' = timer + 1
  /\ last' = Event("tick")
  /\ UNCHANGED <<variant, keyVars, streamVars, screen, configVars, loading, chatHistory, inputVars,
                 questionCount, isMicEnabled, isTimerRunning, feedbackReport,
                 isGeneratingFeedback, recognizing, requestVars, ghostVars, edits>>

(* ------------------------------ submitAnswer ---------------------------- *)
(* handleSendMessage up to its await (lines 237-256, 802-817).  It is      *)
(* reached from the Submit button and, in the chat variant, from the Enter *)
(* key of the textarea.                                                    *)
SubmitAnswer ==
  /\ Mounted
  /\ screen = "interview"
  /\ ~SubmitButtonDisabled \/ ~TextareaDisabled
  /\ last' = Event("submit")
  /\ UNCHANGED <<variant, keyVars, streamVars, screen, configVars, questionCount, isMicEnabled,
                 feedbackReport, isGeneratingFeedback, ghostVars, edits>>
  /\ LET finalMsg == IF variant = "video" THEN currentInput \o interimInput
                     ELSE currentInput
         updatedHistory == Append(chatHistory, Turn("user", finalMsg))
     IN  IF Trim(finalMsg) = <<>>
         THEN UNCHANGED <<loading, chatHistory, inputVars, timerVars,
                          recognizing, requestVars>>
         ELSE /\ chatHistory' = updatedHistory
              /\ currentInput' = <<>>
              /\ interimInput' = <<>>
              /\ loading' = TRUE
              /\ IF variant = "video"
                 THEN isTimerRunning' = FALSE /\ UNCHANGED timer
                 ELSE UNCHANGED timerVars
              /\ Issue("submit", <<>>, VisibleHistory(updatedHistory),
                       FindSystemPrompt(chatHistory), session)
              /\ recognizing' = RecognitionAfter(FALSE)

(* handleSendMessage after its await (lines 258-267, 819-821) *)
SubmitDone(r, outcome) ==
  /\ Mounted
  /\ r \in pending /\ r.kind = "submit"
  /\ LET botResponse == CallGemini(variant, outcome) IN
     /\ chatHistory' = Append(chatHistory, Turn("bot", botResponse))
     /\ last' = Completion("submitDone", r, outcome, botResponse)
  /\ questionCount' = NextQuestionCount(questionCount, outcome)
  /\ loading' = FALSE
  /\ IF variant = "video"
     THEN timer' = 0 /\ isTimerRunning' = TRUE
     ELSE UNCHANGED timerVars
  /\ pending' = pending \ {r}
  /\ roundTrips' = IF r.session = session THEN roundTrips + 1 ELSE roundTrips
  /\ UNCHANGED <<variant, keyVars, streamVars, screen, configVars, inputVars, isMicEnabled,
                 feedbackReport, isGeneratingFeedback, issued, session, reports, aborted,
                 edits>>
  /\ recognizing' = RecognitionAfter(IF r.mic THEN TRUE ELSE recognizing)

(* ------------------------------ end ------------------------------------- *)
(* endInterview up to its await (lines 270-292, 824-847) *)
EndInterview ==
  /\ Mounted
  /\ screen = "interview" /\ ~EndDisabled
  /\ loading' = TRUE
  /\ IF variant = "video"
     THEN /\ isGeneratingFeedback' = TRUE
          /\ isTimerRunning' = FALSE /\ UNCHANGED timer
     ELSE UNCHANGED <<isGeneratingFeedback, timerVars>>
  /\ Issue("end", FeedbackPrompt(variant, skills), VisibleHistory(chatHistory),
           FindSystemPrompt(chatHistory), session)
  /\ last' = Event("end")
  /\ UNCHANGED <<variant, keyVars, streamVars, screen, configVars, chatHistory, inputVars, questionCount,
                 isMicEnabled, feedbackReport, ghostVars, edits>>
  /\ recognizing' = RecognitionAfter(FALSE)

(* video, lines 291-325: both branches set a report and the screen, and    *)
(* the finally block clears loading and isGeneratingFeedback.              *)
EndDoneVideo(r, outcome) ==
  LET rawFeedback == CallGemini(variant, outcome)
      cleanJson == CleanJson(rawFeedback)
      parsed == ~StartsWith(rawFeedback, "Error:") /\ JsonParses(cleanJson)
  IN  /\ feedbackReport' = IF parsed THEN BuildReport(JsonParse(cleanJson))
                           ELSE DegradedReport
      /\ reports' = reports + 1
      /\ screen' = "feedback"
      /\ loading' = FALSE
      /\ isGeneratingFeedback' = FALSE
      /\ last' = Completion("endDone", r, outcome, rawFeedback)

(* the chat catch block as one that shows the feedback screen without     *)
(* having set a report                                                     *)
EndDoneChat_ScreenOnly(r, outcome) ==
  LET rawFeedback == CallGemini(variant, outcome)
      cleanJson == CleanJson(rawFeedback)
  IN  /\ IF JsonParses(cleanJson)
         THEN /\ feedbackReport' = JsonParse(cleanJson)
              /\ reports' = reports + 1
         ELSE UNCHANGED <<feedbackReport, reports>>
      /\ screen' = "feedback"
      /\ loading' = FALSE
      /\ UNCHANGED isGeneratingFeedback
      /\ last' = Completion("endDone", r, outcome, rawFeedback)

(* chat, lines 845-868.  The catch block reads rawFeedback, a const of the *)
(* try block: evaluating the report literal throws a ReferenceError, the   *)
(* handler ends there and none of its three setters runs.                  *)
EndDoneChat(r, outcome) ==
  LET rawFeedback == CallGemini(variant, outcome)
      cleanJson == CleanJson(rawFeedback)
  IN  /\ IF JsonParses(cleanJson)
         THEN /\ feedbackReport' = JsonParse(cleanJson)
              /\ reports' = reports + 1
              /\ screen' = "feedback"
              /\ loading' = FALSE
         ELSE UNCHANGED <<feedbackReport, reports, screen, loading>>
      /\ UNCHANGED isGeneratingFeedback
      /\ last' = Completion("endDone", r, outcome, rawFeedback)

EndDone(r, outcome) ==
  /\ Mounted
  /\ r \in pending /\ r.kind = "end"
  /\ IF variant = "video" THEN EndDoneVideo(r, outcome) ELSE EndDoneChat(r, outcome)
  /\ pending' = pending \ {r}
  /\ UNCHANGED <<variant, keyVars, configVars, chatHistory, inputVars, questionCount,
                 isMicEnabled, timerVars, issued, session, roundTrips, aborted, edits>>
  /\ recognizing' = RecognitionAfter(recognizing)
  /\ VideoAfter(r.session)

(* --------------------------- what is shown ------------------------------ *)
IsBot(m) == m.role = "bot"

(* The turns drawn on the interview screen: the chat variant lists the     *)
(* filtered history (line 1013), the video variant shows lastQuestion, the *)
(* text of the last 'bot' turn (lines 442, 481).                           *)
RenderedTurns ==
  IF screen # "interview" THEN <<>>
  ELSE IF variant = "chat" THEN VisibleHistory(chatHistory)
  ELSE LET bots == SelectSeq(chatHistory, IsBot)
       IN  IF bots = <<>> THEN <<>> ELSE <<Last(bots)>>

(* m.role.toUpperCase() *)
ToUpperCase(r) ==
  CASE r = "bot" -> "BOT"
    [] r = "user" -> "USER"
    [] r = "system_hidden" -> "SYSTEM_HIDDEN"

(* the template literal ROLE: text of lines 331, 874 *)
TranscriptLine(m) == <<ToUpperCase(m.role), ": ">> \o m.text

RECURSIVE Join_NoSeparator(_, _)
(* the entries put one after the other with nothing between them *)
Join_NoSeparator(lines, sep) ==
  IF lines = <<>> THEN <<>>
  ELSE lines[1] \o Join_NoSeparator(Tail(lines), sep)

RECURSIVE Join(_, _)
(* lines.join(sep) *)
Join(lines, sep) ==
  IF lines = <<>> THEN <<>>
  ELSE IF Len(lines) = 1 THEN lines[1]
  ELSE lines[1] \o <<sep>> \o Join(Tail(lines), sep)

TranscriptLines(history) ==
  LET visible == VisibleHistory(history)
  IN  [i \in DOMAIN visible |-> TranscriptLine(visible[i])]

(* the text downloadTranscript puts in the file (lines 329-332, 872-875) *)
TranscriptText(history) == Join(TranscriptLines(history), "\n\n")

(* Download Transcript button of the feedback screen (lines 573, 1089):    *)
(* the file's text is the event's payload; no state is changed.            *)
DownloadTranscript ==
  /\ Mounted
  /\ screen = "feedback" /\ feedbackReport # Null
  /\ last' = [Event("download") EXCEPT !.text = TranscriptText(chatHistory)]
  /\ UNCHANGED <<variant, keyVars, streamVars, screen, configVars, loading, chatHistory, inputVars,
                 questionCount, isMicEnabled, timerVars, feedbackReport,
                 isGeneratingFeedback, recognizing, requestVars, ghostVars, edits>>

(* ------------------------------ leaving --------------------------------- *)
(* the New Interview button as a handler that also discards the session *)
NewInterview_Discarding ==
  /\ Mounted
  /\ NewInterviewRendered
  /\ screen' = "setup"
  /\ chatHistory' = <<>>
  /\ questionCount' = 0
  /\ feedbackReport' = Null
  /\ last' = Event("restart")
  /\ UNCHANGED <<variant, keyVars, configVars, loading, inputVars, isMicEnabled, timerVars,
                 isGeneratingFeedback, requestVars, ghostVars, edits>>
  /\ recognizing' = RecognitionAfter(recognizing)
  /\ VideoAfter(session)

(* New Interview button: setScreen('setup') (lines 580, 1096) *)
NewInterview ==
  /\ Mounted
  /\ NewInterviewRendered
  /\ screen' = "setup"
  /\ last' = Event("restart")
  /\ UNCHANGED <<variant, keyVars, configVars, loading, chatHistory, inputVars, questionCount,
                 isMicEnabled, timerVars, feedbackReport, isGeneratingFeedback,
                 requestVars, ghostVars, edits>>
  /\ recognizing' = RecognitionAfter(recognizing)
  /\ VideoAfter(session)

(* Exit Session as a handler that also puts the setup form back to its    *)
(* initial values                                                          *)
ExitSession_ResetsConfig ==
  /\ Mounted
  /\ ExitRendered
  /\ screen' = "setup"
  /\ role' = DefaultRole /\ skills' = DefaultSkills
  /\ experience' = DefaultExperience /\ rubric' = DefaultRubric
  /\ aborted' = (aborted \/ screen = "interview")
  /\ last' = Event("exit")
  /\ UNCHANGED <<variant, keyVars, loading, chatHistory, inputVars, questionCount,
                 isMicEnabled, timerVars, feedbackReport, isGeneratingFeedback,
                 requestVars, session, roundTrips, reports, edits>>
  /\ recognizing' = RecognitionAfter(recognizing)
  /\ VideoAfter(session)

(* chat: Exit Session, confirmed: setScreen('setup') (line 1187) *)
ExitSession ==
  /\ Mounted
  /\ ExitRendered
  /\ screen' = "setup"
  /\ aborted' = (aborted \/ screen = "interview")
  /\ last' = Event("exit")
  /\ UNCHANGED <<variant, keyVars, configVars, loading, chatHistory, inputVars, questionCount,
                 isMicEnabled, timerVars, feedbackReport, isGeneratingFeedback,
                 requestVars, session, roundTrips, reports, edits>>
  /\ recognizing' = RecognitionAfter(recognizing)
  /\ VideoAfter(session)

(* ------------------------------ the system ------------------------------ *)
Next ==
  \/ \E v \in Roles : SetRole(v)
  \/ \E v \in SkillSets : SetSkills(v)
  \/ \E v \in Experiences : SetExperience(v)
  \/ \E v \in Rubrics : SetRubric(v)
  \/ StartInterview
  \/ \E r \in pending, o \in QuestionOutcomes : StartDone(r, o)
  \/ \E v \in InputsOfLen(MaxInputLen) : TypeInput(v)
  \/ \E v \in InputsOfLen(MaxInputLen) : SpeechFinal(v)
  \/ \E v \in InputsOfLen(MaxInputLen) : SpeechInterim(v)
  \/ ToggleMic
  \/ Tick
  \/ SubmitAnswer
  \/ \E r \in pending, o \in QuestionOutcomes : SubmitDone(r, o)
  \/ EndInterview
  \/ \E r \in pending, o \in FeedbackOutcomes : EndDone(r, o)
  \/ DownloadTranscript
  \/ NewInterview
  \/ ExitSession

Spec == Init /\ [][Next]_vars

TypeOK ==
  /\ variant \in Variants
  /\ screen \in Screens
  /\ loading \in BOOLEAN
  /\ questionCount \in 0..MaxRequests
  /\ timer \in 0..MaxTimer
  /\ \A k \in DOMAIN issued : issued[k] \in 0..MaxIssued[k]
  /\ Cardinality(pending) <= MaxRequests

(* ----------------------------- the API key ------------------------------ *)
(* Use Custom API Key / Hide API Settings (lines 407, 958) *)
ToggleCustomKey ==
  /\ Mounted
  /\ screen = "setup"
  /\ hasCustomKey' = ~hasCustomKey
  /\ last' = Event("toggleKey")
  /\ UNCHANGED <<variant, apiKey, streamVars, screen, configVars, loading, chatHistory, inputVars,
                 questionCount, isMicEnabled, timerVars, feedbackReport,
                 isGeneratingFeedback, recognizing, requestVars, ghostVars, edits>>

(* the key field, shown when hasCustomKey: value={apiKey},                 *)
(* onChange={(e) => setApiKey(e.target.value)} (lines 416-422, 967-973)    *)
SetApiKey(v) ==
  /\ Mounted
  /\ screen = "setup" /\ hasCustomKey /\ v # apiKey
  /\ apiKey' = v
  /\ last' = Event("setApiKey")
  /\ UNCHANGED <<variant, hasCustomKey, streamVars, screen, configVars, loading, chatHistory,
                 inputVars, questionCount, isMicEnabled, timerVars, feedbackReport,
                 isGeneratingFeedback, recognizing, requestVars, ghostVars, edits>>

(* The key has no part in what the session does with a response, so the    *)
(* key field is exercised on its own, with the requests that startInterview*)
(* issues.                                                                 *)
NextApiKey ==
  \/ ToggleCustomKey
  \/ \E v \in ApiKeys : SetApiKey(v)
  \/ StartInterview
  \/ \E r \in pending, o \in QuestionOutcomes : StartDone(r, o)
  \/ ExitSession

SpecApiKey == Init /\ [][NextApiKey]_vars

(* ------------------------------ the camera ------------------------------ *)
(* the effect of lines 125-131, run after a render in which isVideoEnabled *)
(* changed: the tracks of the stream held follow the toggle                *)
TracksAfter(stream) ==
  IF stream # Null /\ isVideoEnabled' # isVideoEnabled
  THEN [stream EXCEPT !.enabled = isVideoEnabled']
  ELSE stream

(* video: camera button (lines 528-533) *)
ToggleVideo ==
  /\ Mounted
  /\ variant = "video" /\ screen = "interview"
  /\ isVideoEnabled' = ~isVideoEnabled
  /\ streamRef' = TracksAfter(streamRef)
  /\ last' = Event("toggleVideo")
  /\ UNCHANGED <<variant, keyVars, videoPending, screen, configVars, loading, chatHistory,
                 inputVars, questionCount, isMicEnabled, timerVars, feedbackReport,
                 isGeneratingFeedback, recognizing, requestVars, ghostVars, edits>>

(* startVideo after its await (lines 136-143): the stream is stored in     *)
(* streamRef whatever the screen is by then; a refusal switches the camera *)
(* toggle off.                                                             *)
GetUserMediaDone(call, granted) ==
  /\ Mounted
  /\ call \in videoPending
  /\ videoPending' = videoPending \ {call}
  /\ IF granted
     THEN streamRef' = Stream(call) /\ UNCHANGED isVideoEnabled
     ELSE isVideoEnabled' = FALSE /\ streamRef' = TracksAfter(streamRef)
  /\ last' = [Event("getUserMediaDone") EXCEPT !.class = IF granted THEN "ok" ELSE "error"]
  /\ UNCHANGED <<variant, keyVars, screen, configVars, loading, chatHistory,
                 inputVars, questionCount, isMicEnabled, timerVars, feedbackReport,
                 isGeneratingFeedback, recognizing, requestVars, ghostVars, edits>>

(* The camera follows the screen only, so it is exercised with the         *)
(* handlers that change the screen of the video variant and with the       *)
(* browser settling getUserMedia at any moment after the call.             *)
InitVideo == Init /\ variant = "video"

NextVideo ==
  \/ StartInterview
  \/ \E r \in pending, o \in QuestionOutcomes : StartDone(r, o)
  \/ EndInterview
  \/ \E r \in pending, o \in FeedbackOutcomes : EndDone(r, o)
  \/ NewInterview
  \/ ToggleVideo
  \/ \E call \in videoPending, granted \in BOOLEAN : GetUserMediaDone(call, granted)

SpecVideo == InitVideo /\ [][NextVideo]_vars

(* ------------------- callGemini on arbitrary arguments ------------------ *)
(* callGemini(prompt, history) applied to every history of up to           *)
(* MaxHistory interviewer and candidate turns and to a prompt that is      *)
(* absent (null or '') or present.                                         *)
TurnTexts == {<<"a">>, <<"b">>}
Histories == SeqsUpTo({Turn(r, t) : r \in {"bot", "user"}, t \in TurnTexts}, MaxHistory)
Prompts == {<<>>, <<"Continue.">>}

InitCallGemini ==
  /\ variant \in Variants
  /\ screen = "setup"
  /\ role = DefaultRole
  /\ skills = DefaultSkills
  /\ experience = DefaultExperience
  /\ rubric = DefaultRubric
  /\ loading = FALSE
  /\ chatHistory \in Histories
  /\ currentInput = <<>>
  /\ interimInput = <<>>
  /\ questionCount = 0
  /\ isMicEnabled = TRUE
  /\ timer = 0
  /\ isTimerRunning = FALSE
  /\ feedbackReport = Null
  /\ isGeneratingFeedback = FALSE
  /\ apiKey = DEFAULT_API_KEY
  /\ hasCustomKey = FALSE
  /\ recognizing = FALSE
  /\ isVideoEnabled = TRUE
  /\ streamRef = Null
  /\ videoPending = {}
  /\ pending = {}
  /\ issued = [start |-> 0, submit |-> 0, end |-> 0]
  /\ session = 0
  /\ roundTrips = 0
  /\ reports = 0
  /\ aborted = FALSE
  /\ edits = 0
  /\ last = Event("init")

(* callGemini(prompt, chatHistory) up to its fetch (lines 154-171, 716-738) *)
CallGeminiWith(prompt) ==
  /\ pending = {}
  /\ pending' = {[id |-> 1, kind |-> "call", contents |-> Contents(prompt, chatHistory),
                  key |-> KeyToUse, systemInstruction |-> <<>>, session |-> session, mic |-> isMicEnabled]}
  /\ last' = [Event("call") EXCEPT !.text = prompt]
  /\ UNCHANGED <<variant, keyVars, streamVars, screen, configVars, loading, chatHistory, inputVars,
                 questionCount, isMicEnabled, timerVars, feedbackReport,
                 isGeneratingFeedback, recognizing, issued, ghostVars, edits>>

NextCallGemini == \E prompt \in Prompts : CallGeminiWith(prompt)

SpecCallGemini == InitCallGemini /\ [][NextCallGemini]_vars

(* ------------------------------ properties ------------------------------ *)
IsUser(m) == m.role = "user"
CandidateTurns(history) == Len(SelectSeq(history, IsUser))

FinalMsg == IF variant = "video" THEN currentInput \o interimInput ELSE currentInput

Issued(kind) == \E r \in pending' \ pending : r.kind = kind

(* C1: a non-empty transcript is one system turn followed by turns that    *)
(* alternate interviewer, candidate, interviewer, ...                      *)
C1_TranscriptShape ==
  chatHistory # <<>> =>
    /\ chatHistory[1].role = "system_hidden"
    /\ \A i \in 2..Len(chatHistory) :
         chatHistory[i].role = IF i % 2 = 0 THEN "bot" ELSE "user"

(* C2: at most one generation request is outstanding at any time *)
C2_AtMostOneOutstanding == Cardinality(pending) <= 1

(* C3: while the busy flag is set, no step appends a candidate turn or     *)
(* issues a submitAnswer request                                           *)
C3_SubmitNoOpWhileBusy ==
  [][loading =>
       /\ ~Issued("submit")
       /\ CandidateTurns(chatHistory') <= CandidateTurns(chatHistory)]_vars

(* C3 witness: an answer is ready on the interview screen while a request  *)
(* is in flight and the busy flag is set                                   *)
C3_Witness ==
  /\ loading /\ pending # {} /\ screen = "interview"
  /\ Trim(FinalMsg) # <<>>

(* C4: while the busy flag is set, no step issues a feedback request *)
C4_EndNoOpWhileBusy == [][loading => ~Issued("end")]_vars

(* C5: the screen changes only along setup->interview, interview->feedback,*)
(* feedback->setup and interview->setup                                    *)
C5_ScreenEdges ==
  [][screen' # screen =>
       <<screen, screen'>> \in {<<"setup", "interview">>, <<"interview", "feedback">>,
                                <<"feedback", "setup">>, <<"interview", "setup">>}]_vars

(* C6: questionCount is the number of the current session's submitAnswer   *)
(* round trips that have completed                                         *)
C6_QuestionCountIsRoundTrips == questionCount = roundTrips

(* C7: after a failed start or submitAnswer request the transcript ends    *)
(* with an interviewer turn whose text starts with "Error:", the busy flag *)
(* is cleared and the screen is interview                                  *)
C7_ErrorTurnOnFailure ==
  (last.op \in {"startDone", "submitDone"} /\ last.class # "ok") =>
    /\ chatHistory # <<>>
    /\ Last(chatHistory).role = "bot"
    /\ Last(chatHistory).text = last.text
    /\ StartsWith(last.text, "Error:")
    /\ ~loading
    /\ screen = "interview"

(* C8 as stated: a failed submitAnswer request leaves questionCount as it  *)
(* was                                                                     *)
C8_NoIncrementOnFailure ==
  (last.op = "submitDone" /\ last.class # "ok") => questionCount = last.qc

(* C8 amended: every resolved submitAnswer request, failed or not,         *)
(* increments questionCount by one                                         *)
C8_IncrementOnEveryCompletion ==
  last.op = "submitDone" => questionCount = last.qc + 1

(* C8 witness: a submitAnswer request has just resolved with a failure *)
C8_Witness == last.op = "submitDone" /\ last.class # "ok"

(* C9: after a successful start the transcript is [system, interviewer(T)],*)
(* questionCount is 0, the screen is interview, the busy flag is cleared   *)
(* and, in the video variant, the timer is 0 and running                   *)
C9_StartSuccessState ==
  (last.op = "startDone" /\ last.class = "ok") =>
    /\ last.sys \in {SystemPrompt(variant, r, e, s, rb) :
                       r \in Roles, e \in Experiences, s \in SkillSets, rb \in Rubrics}
    /\ chatHistory = <<Turn("system_hidden", last.sys), Turn("bot", last.text)>>
    /\ questionCount = 0
    /\ screen = "interview"
    /\ ~loading
    /\ variant = "video" => (timer = 0 /\ isTimerRunning)

(* C10: once an end request has resolved, the screen is feedback, a report *)
(* is set and the busy flag is cleared                                     *)
C10_EndReachesFeedback ==
  last.op = "endDone" =>
    /\ screen = "feedback"
    /\ feedbackReport # Null
    /\ ~loading

(* s contains sub as a contiguous run of pieces *)
Contains(s, sub) ==
  \E i \in 0..Len(s) :
    /\ i + Len(sub) <= Len(s)
    /\ \A j \in 1..Len(sub) : s[i + j] = sub[j]

(* the end request that just resolved failed at the endpoint or returned a *)
(* text that, fences stripped, is not JSON                                 *)
EndFailed ==
  /\ last.op = "endDone"
  /\ last.class # "ok" \/ ~JsonParses(CleanJson(last.text))

(* C11: when the end request fails at the endpoint or its response does    *)
(* not parse, a report is set whose technical_analysis carries the raw     *)
(* response or error text and whose strengths and improvements are empty   *)
C11_DegradedReportCarriesRawText ==
  EndFailed =>
    /\ HasField(feedbackReport, "technical_analysis")
    /\ feedbackReport.v.technical_analysis.t = "str"
    /\ Contains(feedbackReport.v.technical_analysis.v, last.text)
    /\ HasField(feedbackReport, "strengths")
    /\ feedbackReport.v.strengths = JArr(<<>>)
    /\ HasField(feedbackReport, "improvements")
    /\ feedbackReport.v.improvements = JArr(<<>>)

(* the end request that just resolved returned a text that parses *)
EndParsed ==
  /\ last.op = "endDone"
  /\ last.class = "ok" /\ JsonParses(CleanJson(last.text))

ReportFields ==
  {"summary", "strengths", "improvements", "rating", "technical_analysis",
   "communication_analysis"}

(* C12: when the feedback response parses, the report has all six fields,  *)
(* strengths and improvements are lists, the other fields are strings, and *)
(* rendering the report throws nothing                                     *)
C12_ParsedReportHasSafeDefaults ==
  EndParsed =>
    /\ feedbackReport.t = "obj"
    /\ DOMAIN feedbackReport.v = ReportFields
    /\ \A f \in ReportFields :
         feedbackReport.v[f].t = IF f \in {"strengths", "improvements"} THEN "arr" ELSE "str"
    /\ ~RenderFeedbackThrows(feedbackReport)

(* C13: between one startInterview call and the next, a report is set at   *)
(* most once, whatever the interleaving of clicks and responses            *)
C13_AtMostOneReportPerSession == reports <= 1

(* the requests that resolve in this step *)
Resolved == pending \ pending'

(* C14: once startInterview has been called again, a request issued in an  *)
(* earlier session changes neither the transcript, nor questionCount, nor  *)
(* the feedback report when it resolves                                    *)
C14_NoStaleCompletionApplied ==
  [][\A r \in Resolved :
       r.session # session => UNCHANGED <<chatHistory, questionCount, feedbackReport>>]_vars

IsHidden(m) == m.role = "system_hidden"

(* C15: the system turn is in no state among the turns drawn on the screen *)
(* and is not in the text that downloadTranscript produces                 *)
C15_SystemTurnNeverShown ==
  /\ \A i \in DOMAIN RenderedTurns : ~IsHidden(RenderedTurns[i])
  /\ last.op = "download" =>
       /\ \A i \in DOMAIN last.text : last.text[i] # ToUpperCase("system_hidden")
       /\ \A i \in DOMAIN chatHistory :
            IsHidden(chatHistory[i]) => ~Contains(last.text, chatHistory[i].text)

(* C15 witness: a transcript holding a system turn and other turns has     *)
(* just been downloaded                                                    *)
C15_Witness ==
  /\ last.op = "download" /\ last.text # <<>>
  /\ \E i \in DOMAIN chatHistory : IsHidden(chatHistory[i])

NonSystem(m) == ~IsHidden(m)

(* the entries of a request's contents that come from its history: all of  *)
(* them, less the trailing feedback prompt of an end request               *)
HistoryOf(r) ==
  IF r.kind = "end" THEN SubSeq(r.contents, 1, Len(r.contents) - 1) ELSE r.contents

(* the request r carries the non-system turns of transcript, in order, as  *)
(* its history, no system turn, and the stored system prompt as its        *)
(* systemInstruction                                                       *)
CarriesTranscript(r, transcript) ==
  LET turns == SelectSeq(transcript, NonSystem)
      history == HistoryOf(r)
  IN  /\ Len(history) = Len(turns)
      /\ \A i \in DOMAIN turns : history[i].text = turns[i].text
      /\ transcript # <<>> /\ IsHidden(transcript[1])
      /\ r.systemInstruction = transcript[1].text
      /\ r.systemInstruction # <<>>
      /\ \A i \in DOMAIN r.contents : r.contents[i].text # r.systemInstruction

(* C16: every request issued by handleSendMessage or endInterview carries  *)
(* as history exactly the non-system turns of the transcript as it is then *)
(* (the candidate turn just appended included), no system turn, and the    *)
(* stored system prompt as the separate systemInstruction                  *)
C16_RequestCarriesTranscript ==
  [][\A r \in pending' \ pending :
       r.kind \in {"submit", "end"} => CarriesTranscript(r, chatHistory')]_vars

(* C16 witness: an answer has just been submitted and its request, holding *)
(* the opening question and the answer, is outstanding                     *)
C16_Witness ==
  /\ last.op = "submit"
  /\ \E r \in pending :
       /\ r.kind = "submit" /\ Len(r.contents) >= 2
       /\ r.contents[Len(r.contents)] = [role |-> "user", text |-> Last(chatHistory).text]

(* C17: the user can always get back to the setup screen with Start        *)
(* enabled.  loading is cleared only by the continuation of a request, and *)
(* on the setup screen a request is issued only by Start, which loading    *)
(* disables: so on the setup screen with no request outstanding, loading   *)
(* must be false, or Start stays disabled for ever.                        *)
C17_StartEnabledWhenIdleOnSetup ==
  (screen = "setup" /\ pending = {}) => ~StartDisabled

Discarded == chatHistory = <<>> /\ feedbackReport = Null /\ questionCount = 0

(* C18: right after restart (New Interview on the feedback screen) the     *)
(* transcript is empty, the feedback report is absent and questionCount is *)
(* 0                                                                       *)
C18_RestartDiscards == last.op = "restart" => Discarded

(* C18, amended: restart only sets the screen to setup and leaves the      *)
(* transcript, the report and questionCount as they were; it is the next   *)
(* startInterview call that empties the transcript, clears the report and  *)
(* sets questionCount to 0                                                 *)
C18_StartDiscardsAfterRestart ==
  [][/\ last'.op = "restart" =>
          /\ screen' = "setup"
          /\ UNCHANGED <<chatHistory, feedbackReport, questionCount>>
     /\ last'.op = "start" => Discarded']_vars

(* C18 witness: the video variant, which reaches the setup screen again    *)
(* only by restart, has just called startInterview for the second time     *)
C18_Witness == variant = "video" /\ last.op = "start" /\ session = 2 /\ Discarded

(* C19: once the interview has been left by abort (Exit Session), the      *)
(* transcript is empty, questionCount is 0 and, until the next start, no   *)
(* feedback report is set                                                  *)
C19_AbortDiscardsAndNoReport ==
  aborted => chatHistory = <<>> /\ questionCount = 0 /\ feedbackReport = Null

(* the role the endpoint is given for a turn of the transcript *)
EndpointRole(m) == IF IsBot(m) THEN "model" ELSE "user"

C21_NoAbortMidRequest ==
  [][(screen = "interview" /\ screen' = "setup") => pending = {}]_vars

(* C22: the four config fields do not change once startInterview has been  *)
(* called: on the interview screen, where role and skills are shown (lines *)
(* 515, 999-1001), they are the values interpolated into the stored system *)
(* prompt                                                                  *)
C22_ConfigMatchesSystemPrompt ==
  screen = "interview" =>
    FindSystemPrompt(chatHistory) = SystemPrompt(variant, role, experience, skills, rubric)

(* the events that are not an edit of the setup form *)
SessionOps ==
  {"restart", "exit", "submit", "end", "startDone", "submitDone", "endDone"}

(* C23: restart, abort, submitAnswer, end and every request completion     *)
(* leave role, skills, experience and rubric as they were                  *)
C23_ConfigFrame ==
  [][last'.op \in SessionOps => UNCHANGED configVars]_vars

(* C23 witness: after restart or abort the setup screen shows a role that  *)
(* was entered for the session just left                                   *)
C23_Witness ==
  /\ last.op \in {"restart", "exit"} /\ screen = "setup"
  /\ role # DefaultRole /\ session = 1

(* a text of white space only *)
Blank(text) == \A i \in DOMAIN text : text[i] = " "

(* C24: handleSendMessage on a text that is blank changes neither the      *)
(* transcript, nor questionCount, nor loading, nor the timer, and issues   *)
(* no request; so no candidate turn of the transcript ever has a blank     *)
(* text                                                                    *)
C24_BlankSubmitIsNoOp ==
  [][/\ (last'.op = "submit" /\ Blank(FinalMsg)) =>
          UNCHANGED <<chatHistory, questionCount, loading, timerVars, requestVars>>
     /\ \A i \in DOMAIN chatHistory' :
          IsUser(chatHistory'[i]) => ~Blank(chatHistory'[i].text)]_vars

(* C24 witness: handleSendMessage has just run on a text of white space,   *)
(* before any answer was accepted                                          *)
C24_Witness ==
  /\ last.op = "submit" /\ FinalMsg # <<>> /\ Blank(FinalMsg)
  /\ issued.submit = 0 /\ ~loading

(* the handler that ran in this step got past its guards: startInterview,  *)
(* endInterview, or handleSendMessage on a text that is not blank          *)
Accepted(kind) ==
  /\ last'.op = kind
  /\ <<issued, pending, chatHistory, loading>> # <<issued', pending', chatHistory', loading'>>
  /\ kind = "submit" => ~Blank(FinalMsg)

(* C25: every accepted start, submitAnswer or end issues exactly one       *)
(* request, of its own kind, and no other step issues any: a request that  *)
(* has resolved, failed or not, is not issued again                        *)
C25_OneRequestPerEvent ==
  [][LET new == pending' \ pending
     IN  /\ Cardinality(new) <= 1
         /\ \A r \in new : last'.op = r.kind
         /\ \A kind \in {"start", "submit", "end"} :
              Accepted(kind) => \E r \in new : r.kind = kind
         /\ last'.op \in {"startDone", "submitDone", "endDone"} =>
              new = {} /\ Cardinality(pending') = Cardinality(pending) - 1]_vars

(* C25 witness: a request has just failed and nothing is outstanding       *)
C25_Witness ==
  /\ last.op \in {"startDone", "submitDone", "endDone"}
  /\ last.class # "ok"
  /\ pending = {}

(* the separator downloadTranscript joins with: two newline characters *)
BlankLine == "\n\n"

RECURSIVE SplitAt(_, _, _)
(* text cut at every piece sep, with the sequences of between put where a  *)
(* sep was                                                                 *)
SplitAt(text, sep, between) ==
  IF text = <<>> THEN << <<>> >>
  ELSE LET rest == SplitAt(Tail(text), sep, between)
       IN  IF Head(text) = sep
           THEN << <<>> >> \o between \o rest
           ELSE << <<Head(text)>> \o rest[1] >> \o Tail(rest)

(* the lines of a file holding text: BlankLine is two line ends, so it     *)
(* ends a line and leaves an empty line after it                           *)
FileLines(text) == IF text = <<>> THEN <<>> ELSE SplitAt(text, BlankLine, << <<>> >>)

(* the parts of text that BlankLine separates *)
FileEntries(text) == IF text = <<>> THEN <<>> ELSE SplitAt(text, BlankLine, <<>>)

(* the label the export gives a turn: its role in upper case *)
SpeakerLabel(m) == IF IsBot(m) THEN "BOT" ELSE "USER"

(* what the export is to hold for each non-system turn, in order *)
ExpectedEntries(transcript) ==
  LET turns == SelectSeq(transcript, NonSystem)
  IN  [i \in DOMAIN turns |-> <<SpeakerLabel(turns[i]), ": ">> \o turns[i].text]

(* C26: the file downloadTranscript produces has exactly one line per      *)
(* non-system turn, in transcript order, each of the form ROLE: text       *)
C26_OneLinePerTurn ==
  last.op = "download" => FileLines(last.text) = ExpectedEntries(chatHistory)

(* C26, amended: the file holds exactly one entry per non-system turn, in  *)
(* transcript order, each of the form ROLE: text with ROLE the turn's role *)
(* in upper case (BOT, USER), and the entries are separated by a blank     *)
(* line                                                                    *)
C26_OneEntryPerTurn ==
  last.op = "download" => FileEntries(last.text) = ExpectedEntries(chatHistory)

(* C26 witness: a transcript holding the system turn, a question and an    *)
(* answer has just been downloaded                                         *)
C26_Witness ==
  /\ last.op = "download"
  /\ \E i, j, k \in DOMAIN chatHistory :
       IsHidden(chatHistory[i]) /\ IsBot(chatHistory[j]) /\ IsUser(chatHistory[k])

(* C27: a request is sent with the key the user has entered in the key     *)
(* field and, when the field is empty, with the key of the build           *)
C27_KeyIsOverrideOrDefault ==
  [][\A r \in pending' \ pending :
       r.key = IF apiKey # <<>> THEN apiKey ELSE DEFAULT_API_KEY]_vars

(* C28: loading is true exactly when a request issued by startInterview,   *)
(* handleSendMessage or endInterview has not resolved                      *)
C28_LoadingIffOutstanding == loading <=> pending # {}

C30_TimerRunsOnlyWhenIdleInInterview ==
  (variant = "video" /\ isTimerRunning) => (screen = "interview" /\ pending = {})

(* C31: in the video variant speech recognition is started only while the  *)
(* interview screen is shown, the microphone toggle is on and no request   *)
(* is outstanding                                                          *)
C31_RecognitionOnlyWhenListening ==
  (variant = "video" /\ recognizing) =>
    (screen = "interview" /\ isMicEnabled /\ pending = {})

(* C32: in the video variant a camera stream is held only while the        *)
(* interview screen is shown: on the setup and feedback screens streamRef  *)
(* is null                                                                 *)
C32_StreamHeldOnlyInInterview ==
  (variant = "video" /\ screen # "interview") => streamRef = Null

====
